---- MODULE Spec2Model ----
(***************************************************************************)
(* Router C++ core of kicad-tools: the 3-D routing grid (grid.hpp/.cpp)    *)
(* and the weighted A* pathfinder (pathfinder.hpp/.cpp).                   *)
(*                                                                         *)
(* Floating-point costs are modelled exactly, in thousandths: 1.0f is     *)
(* 1000 and the diagonal multiplier 1.414f is 1414.  World coordinates    *)
(* and lengths are in micrometres, so the 0.01f threshold of               *)
(* reconstruct_path is 10.  Two costs that are equal in exact arithmetic   *)
(* are a tie; the priority queue may pop either of two tied nodes.         *)
(***************************************************************************)
EXTENDS Integers, Sequences, FiniteSets, TLC

VARIABLES
    cols, rows, layers,   \* Grid3D::cols_, rows_, layers_
    cells,                \* Grid3D::cells_, the flat buffer, keyed by index
    congestion,           \* Grid3D::congestion_, the flat coarse counters
    oob,                  \* TRUE once a buffer was accessed out of range
    nops,                 \* number of grid operations called so far
    rules,                \* Pathfinder::rules_
    diagonal_routing,     \* Pathfinder::diagonal_routing_
    routable_layers,      \* Pathfinder::routable_layers_
    pc,                   \* "idle", "search" (inside route's loop), "done", "asked"
    args,                 \* the arguments of the route() call in progress
    open_set,             \* route: the priority queue
    closed_set,           \* route: the expanded positions
    g_scores,             \* route: best known g per position
    closed_list,          \* route: the expanded nodes, for reconstruct_path
    last_iterations,      \* Pathfinder::last_iterations_
    last_nodes_explored,  \* Pathfinder::last_nodes_explored_
    result,               \* the RouteResult returned by route()
    hquery, hvalue        \* a heuristic() call and the value it returned

gridVars == <<cols, rows, layers, cells, congestion, oob, nops>>
finderVars == <<rules, diagonal_routing, routable_layers>>
routeVars == <<pc, args, open_set, closed_set, g_scores, closed_list,
               last_iterations, last_nodes_explored, result>>
heuristicVars == <<hquery, hvalue>>
vars == <<gridVars, finderVars, routeVars, heuristicVars>>

-----------------------------------------------------------------------------
(* Bounds of the model *)

MaxOps == 2          \* grid operations per behaviour
MaxUsage == 1        \* increment_usage is not called on a cell beyond this

(* Program constants *)

CongestionSize == 8  \* Grid3D::congestion_size_

-----------------------------------------------------------------------------
(* types.hpp *)

GridCell == [blocked |-> FALSE, net |-> 0, usage_count |-> 0, history_cost |-> 0,
             is_obstacle |-> FALSE, is_zone |-> FALSE, pad_blocked |-> FALSE,
             original_net |-> 0]

Max(a, b) == IF a >= b THEN a ELSE b
Min(a, b) == IF a <= b THEN a ELSE b
Abs(a) == IF a >= 0 THEN a ELSE -a
Clamp(v, lo, hi) == IF v < lo THEN lo ELSE IF hi < v THEN hi ELSE v

\* C++ integer division truncates toward zero
CDiv(a, b) == IF a >= 0 THEN a \div b ELSE -((-a) \div b)

\* conversion to int16_t (usage_count)
ToInt16(v) == ((v + 32768) % 65536) - 32768

\* conversion to size_t: a negative value wraps to 2^64 + v.  The model checker's
\* integers are 32 bits wide, so 2^30 stands for 2^64: both exceed every buffer
\* size, which is all the index comparisons depend on
ToSizeT(v) == IF v >= 0 THEN v ELSE 1073741824 + v

-----------------------------------------------------------------------------
(* grid.hpp / grid.cpp: the grid as a value [cells, congestion, oob] *)

CongestionCols == Max(1, cols \div CongestionSize)
CongestionRows == Max(1, rows \div CongestionSize)

TotalCells == cols * rows * layers
CongestionCells == layers * CongestionRows * CongestionCols

Index(x, y, layer) == ToSizeT(layer * rows * cols + y * cols + x)

IsValid(x, y, layer) ==
    x >= 0 /\ x < cols /\ y >= 0 /\ y < rows /\ layer >= 0 /\ layer < layers

At(g, x, y, layer) == g.cells[Index(x, y, layer)]

NewGrid(c, r, l) ==
    [cells |-> [i \in 0..(c * r * l - 1) |-> GridCell],
     congestion |-> [i \in 0..(l * Max(1, r \div CongestionSize)
                                 * Max(1, c \div CongestionSize) - 1) |-> 0],
     oob |-> FALSE]

CongestionIndex(x, y, layer) ==
    LET cx == Min(CDiv(x, CongestionSize), CongestionCols - 1)
        cy == Min(CDiv(y, CongestionSize), CongestionRows - 1)
    IN  ToSizeT(layer * CongestionRows * CongestionCols + cy * CongestionCols + cx)

\* congestion_[idx] += delta; an index outside the buffer is recorded in oob
UpdateCongestion(g, x, y, layer, delta) ==
    LET idx == CongestionIndex(x, y, layer)
    IN  IF idx < CongestionCells
        THEN [g EXCEPT !.congestion[idx] = @ + delta]
        ELSE [g EXCEPT !.oob = TRUE]

MarkBlocked(g, x, y, layer, net, is_obstacle) ==
    IF ~IsValid(x, y, layer) THEN g
    ELSE [g EXCEPT !.cells[Index(x, y, layer)] =
              [@ EXCEPT !.blocked = TRUE, !.net = net, !.is_obstacle = is_obstacle]]

\* the cells of rows ya..yb, columns xa..xb in loop order (y outer, x inner)
RectCells(xa, ya, xb, yb) ==
    IF xb < xa \/ yb < ya THEN << >>
    ELSE LET w == xb - xa + 1
         IN  [i \in 1..(w * (yb - ya + 1)) |->
                 <<xa + ((i - 1) % w), ya + ((i - 1) \div w)>>]

RECURSIVE MarkBlockedEach(_, _, _, _, _, _)
MarkBlockedEach(g, pts, i, layer, net, is_obstacle) ==
    IF i > Len(pts) THEN g
    ELSE MarkBlockedEach(MarkBlocked(g, pts[i][1], pts[i][2], layer, net, is_obstacle),
                         pts, i + 1, layer, net, is_obstacle)

MarkRectBlocked(g, x1, y1, x2, y2, layer, net, is_obstacle) ==
    LET xa == Clamp(x1, 0, cols - 1)
        ya == Clamp(y1, 0, rows - 1)
        xb == Clamp(x2, 0, cols - 1)
        yb == Clamp(y2, 0, rows - 1)
    IN  MarkBlockedEach(g, RectCells(xa, ya, xb, yb), 1, layer, net, is_obstacle)

\* Bresenham's line from (x, y) to (x2, y2): the cells visited, in order
RECURSIVE Bresenham(_, _, _, _, _, _, _, _, _)
Bresenham(x, y, x2, y2, dx, dy, sx, sy, err) ==
    IF x = x2 /\ y = y2 THEN << <<x, y>> >>
    ELSE LET e2 == 2 * err
             stepx == e2 > -dy
             err1 == IF stepx THEN err - dy ELSE err
             nx == IF stepx THEN x + sx ELSE x
             stepy == e2 < dx
             err2 == IF stepy THEN err1 + dx ELSE err1
             ny == IF stepy THEN y + sy ELSE y
         IN  << <<x, y>> >> \o Bresenham(nx, ny, x2, y2, dx, dy, sx, sy, err2)

LineCells(x1, y1, x2, y2) ==
    LET dx == Abs(x2 - x1)
        dy == Abs(y2 - y1)
        sx == IF x1 < x2 THEN 1 ELSE -1
        sy == IF y1 < y2 THEN 1 ELSE -1
    IN  Bresenham(x1, y1, x2, y2, dx, dy, sx, sy, dx - dy)

\* the body of mark_with_clearance's loops (and of mark_via's) for one valid cell
MarkCell(cell, net) ==
    [cell EXCEPT !.net = IF ~cell.blocked THEN net ELSE @, !.blocked = TRUE]

\* faulty variants of the unmark loop body, for sensitivity analysis: one clears
\* a cell whatever its net, the other forgets the pad_blocked test
UnmarkCellAnyNet(cell, net) ==
    IF cell.pad_blocked THEN [cell EXCEPT !.net = cell.original_net]
    ELSE [cell EXCEPT !.blocked = FALSE, !.net = 0]

UnmarkCellNoPadTest(cell, net) ==
    IF cell.net = net THEN [cell EXCEPT !.blocked = FALSE, !.net = 0]
    ELSE cell

\* the body of unmark_with_clearance's loops (and of unmark_via's) for one valid cell
UnmarkCell(cell, net) ==
    IF cell.pad_blocked THEN [cell EXCEPT !.net = cell.original_net]
    ELSE IF cell.net = net THEN [cell EXCEPT !.blocked = FALSE, !.net = 0]
    ELSE cell

\* the valid cells of the (2k+1) x (2k+1) square around (gx, gy), as indices
SquareIndices(gx, gy, layer, k) ==
    {Index(p[1], p[2], layer) :
        p \in {q \in ((gx - k)..(gx + k)) \X ((gy - k)..(gy + k)) :
                    IsValid(q[1], q[2], layer)}}

\* a faulty variant that counts every valid cell of the square, blocked or not
MarkCongestionEveryCell(g, gx, gy, layer, k) ==
    [b \in DOMAIN g.congestion |->
        g.congestion[b] + Cardinality(
            {p \in ((gx - k)..(gx + k)) \X ((gy - k)..(gy + k)) :
                /\ IsValid(p[1], p[2], layer)
                /\ CongestionIndex(p[1], p[2], layer) = b})]

\* update_congestion(nx, ny, layer, 1) for every cell of the square that was not
\* blocked: the coordinates are valid, so the index is inside congestion_
MarkCongestion(g, gx, gy, layer, k) ==
    [b \in DOMAIN g.congestion |->
        g.congestion[b] + Cardinality(
            {p \in ((gx - k)..(gx + k)) \X ((gy - k)..(gy + k)) :
                /\ IsValid(p[1], p[2], layer)
                /\ ~At(g, p[1], p[2], layer).blocked
                /\ CongestionIndex(p[1], p[2], layer) = b})]

\* the two loops visit each cell of the square once and touch only that cell
MarkWithClearance(g, gx, gy, layer, net, k) ==
    LET sq == SquareIndices(gx, gy, layer, k)
    IN  [g EXCEPT !.cells = [i \in DOMAIN g.cells |->
                                IF i \in sq THEN MarkCell(g.cells[i], net)
                                ELSE g.cells[i]],
                  !.congestion = MarkCongestion(g, gx, gy, layer, k)]

UnmarkWithClearance(g, gx, gy, layer, net, k) ==
    LET sq == SquareIndices(gx, gy, layer, k)
    IN  [g EXCEPT !.cells = [i \in DOMAIN g.cells |->
                                IF i \in sq THEN UnmarkCell(g.cells[i], net)
                                ELSE g.cells[i]]]

RECURSIVE MarkLine(_, _, _, _, _, _)
MarkLine(g, line, i, layer, net, k) ==
    IF i > Len(line) THEN g
    ELSE MarkLine(MarkWithClearance(g, line[i][1], line[i][2], layer, net, k),
                  line, i + 1, layer, net, k)

RECURSIVE UnmarkLine(_, _, _, _, _, _)
UnmarkLine(g, line, i, layer, net, k) ==
    IF i > Len(line) THEN g
    ELSE UnmarkLine(UnmarkWithClearance(g, line[i][1], line[i][2], layer, net, k),
                    line, i + 1, layer, net, k)

MarkSegment(g, x1, y1, x2, y2, layer, net, clearance_cells) ==
    MarkLine(g, LineCells(x1, y1, x2, y2), 1, layer, net, clearance_cells)

UnmarkSegment(g, x1, y1, x2, y2, layer, net, clearance_cells) ==
    UnmarkLine(g, LineCells(x1, y1, x2, y2), 1, layer, net, clearance_cells)

RECURSIVE MarkVia(_, _, _, _, _, _)
MarkVia(g, layer, x, y, net, radius_cells) ==
    IF layer >= layers THEN g
    ELSE MarkVia(MarkWithClearance(g, x, y, layer, net, radius_cells),
                 layer + 1, x, y, net, radius_cells)

RECURSIVE UnmarkVia(_, _, _, _, _, _)
UnmarkVia(g, layer, x, y, net, radius_cells) ==
    IF layer >= layers THEN g
    ELSE UnmarkVia(UnmarkWithClearance(g, x, y, layer, net, radius_cells),
                   layer + 1, x, y, net, radius_cells)

IncrementUsage(g, x, y, layer) ==
    IF IsValid(x, y, layer)
    THEN [g EXCEPT !.cells[Index(x, y, layer)].usage_count = ToInt16(@ + 1)]
    ELSE g

\* get_total_overflow's loop body for cell i: what the cell adds to overflow
Overflow(cs, i) ==
    IF cs[i].usage_count > 1 THEN cs[i].usage_count - 1 ELSE 0

RECURSIVE SumOverflow(_, _)
SumOverflow(cs, i) ==
    IF i \notin DOMAIN cs THEN 0 ELSE Overflow(cs, i) + SumOverflow(cs, i + 1)

GetTotalOverflow(g) == SumOverflow(g.cells, 0)

\* history_cost += increment * (usage_count - 1), in thousandths
UpdateHistoryCosts(g, increment) ==
    [g EXCEPT !.cells =
        [i \in DOMAIN g.cells |->
            IF g.cells[i].usage_count > 1
            THEN [g.cells[i] EXCEPT !.history_cost = @ + increment * (g.cells[i].usage_count - 1)]
            ELSE g.cells[i]]]

\* bindings.cpp: the host marks a pad through the writable GridCell fields
SetPad(g, x, y, layer, net) ==
    [g EXCEPT !.cells[Index(x, y, layer)] =
        [@ EXCEPT !.blocked = TRUE, !.net = net,
                  !.pad_blocked = TRUE, !.original_net = net]]

-----------------------------------------------------------------------------
(* grid.hpp / grid.cpp: coordinates and cost queries *)

\* Grid3D(cols, rows, layers, resolution, origin_x, origin_y): a 1 mm grid at 0
Geometry == [resolution |-> 1000, origin_x |-> 0, origin_y |-> 0]

\* std::round(a / b) for b > 0: halves are rounded away from zero
RoundDiv(a, b) ==
    IF a >= 0 THEN (2 * a + b) \div (2 * b) ELSE -((2 * (-a) + b) \div (2 * b))

\* std::ceil(a / b) for a >= 0, b > 0
CeilDiv(a, b) == (a + b - 1) \div b

WorldToGrid(x, y) ==
    <<Clamp(RoundDiv(x - Geometry.origin_x, Geometry.resolution), 0, cols - 1),
      Clamp(RoundDiv(y - Geometry.origin_y, Geometry.resolution), 0, rows - 1)>>

GridToWorld(gx, gy) ==
    <<Geometry.origin_x + gx * Geometry.resolution,
      Geometry.origin_y + gy * Geometry.resolution>>

\* +infinity of float; FAdd is float addition of non-negative costs
Infinity == 1000000000
FAdd(a, b) == IF a = Infinity \/ b = Infinity THEN Infinity ELSE a + b

\* count / max_cells capped at 1.0, in 64ths (max_cells is 8 * 8).  The index is
\* not tested: beyond the buffer the count is whatever int lies there, g.stray
GetCongestion(g, x, y, layer) ==
    LET idx == CongestionIndex(x, y, layer)
        count == IF idx < CongestionCells THEN g.congestion[idx] ELSE g.stray
    IN  Min(CongestionSize * CongestionSize, count)

GetNegotiatedCost(g, x, y, layer, present_factor) ==
    IF ~IsValid(x, y, layer) THEN Infinity
    ELSE LET cell == At(g, x, y, layer)
         IN  IF cell.is_obstacle THEN Infinity
             ELSE (present_factor * cell.usage_count) \div 1000 + cell.history_cost

-----------------------------------------------------------------------------
(* types.hpp, pathfinder.hpp / pathfinder.cpp *)

\* DesignRules with its default values; congestion_threshold 0.5 is 32/64
DesignRules ==
    [trace_width |-> 127, trace_clearance |-> 127, via_drill |-> 300,
     via_diameter |-> 600, via_clearance |-> 127, grid_resolution |-> 127,
     cost_straight |-> 1000, cost_turn |-> 1500, cost_via |-> 10000,
     cost_congestion |-> 5000, congestion_threshold |-> 32]

Neighbor(dx, dy, cost_mult) == [dx |-> dx, dy |-> dy, dlayer |-> 0, cost_mult |-> cost_mult]

\* Pathfinder::neighbors_2d_
Neighbors2D ==
    <<Neighbor(1, 0, 1000), Neighbor(-1, 0, 1000),
      Neighbor(0, 1, 1000), Neighbor(0, -1, 1000)>>
    \o (IF diagonal_routing
        THEN <<Neighbor(1, 1, 1414), Neighbor(-1, 1, 1414),
               Neighbor(1, -1, 1414), Neighbor(-1, -1, 1414)>>
        ELSE << >>)

\* Pathfinder::trace_half_width_cells_ and via_half_cells_
TraceHalfWidthCells ==
    Max(1, CeilDiv(rules.trace_width + 2 * rules.trace_clearance, 2 * Geometry.resolution))

ViaHalfCells ==
    Max(1, CeilDiv(rules.via_diameter + 2 * rules.via_clearance, 2 * Geometry.resolution))

\* the constructor's default: all layers are routable
AllLayers(n) == [i \in 1..n |-> i - 1]

\* a faulty variant whose sharing branch forgets the is_obstacle test
CellBlocksSharingObstacles(cell, net, allow_sharing) ==
    /\ cell.blocked
    /\ IF allow_sharing
       THEN \/ cell.net = 0 /\ cell.usage_count = 0
            \/ cell.net # net /\ cell.usage_count = 0
       ELSE cell.is_obstacle \/ cell.net # net

\* the test the three blocking predicates apply to a cell of the footprint
CellBlocks(cell, net, allow_sharing) ==
    /\ cell.blocked
    /\ IF allow_sharing /\ ~cell.is_obstacle
       THEN \/ cell.net = 0 /\ cell.usage_count = 0
            \/ cell.net # net /\ cell.usage_count = 0
       ELSE cell.is_obstacle \/ cell.net # net

IsTraceBlocked(g, x, y, layer, net, allow_sharing) ==
    \E dy \in (-TraceHalfWidthCells)..TraceHalfWidthCells,
       dx \in (-TraceHalfWidthCells)..TraceHalfWidthCells :
        \/ ~IsValid(x + dx, y + dy, layer)
        \/ CellBlocks(At(g, x + dx, y + dy, layer), net, allow_sharing)

\* a faulty variant that looks at the vertical neighbour alone
IsDiagonalBlockedOneSide(g, x, y, dx, dy, layer, net, allow_sharing) ==
    IF dx = 0 \/ dy = 0 THEN FALSE
    ELSE \/ ~IsValid(x, y + dy, layer)
         \/ CellBlocks(At(g, x, y + dy, layer), net, allow_sharing)

IsDiagonalBlocked(g, x, y, dx, dy, layer, net, allow_sharing) ==
    IF dx = 0 \/ dy = 0 THEN FALSE
    ELSE \E c \in {<<x, y + dy>>, <<x + dx, y>>} :
            \/ ~IsValid(c[1], c[2], layer)
            \/ CellBlocks(At(g, c[1], c[2], layer), net, allow_sharing)

IsViaBlocked(g, x, y, net, allow_sharing) ==
    \E layer \in 0..(layers - 1),
       dy \in (-ViaHalfCells)..ViaHalfCells, dx \in (-ViaHalfCells)..ViaHalfCells :
        \/ ~IsValid(x + dx, y + dy, layer)
        \/ CellBlocks(At(g, x + dx, y + dy, layer), net, allow_sharing)

Heuristic(x, y, layer, goal_x, goal_y, goal_layer) ==
    LET dx == Abs(x - goal_x)
        dy == Abs(y - goal_y)
        h0 == IF diagonal_routing
              THEN 1000 * Max(dx, dy) + (1414 - 1000) * Min(dx, dy)
              ELSE 1000 * (dx + dy)
        h == IF layer # goal_layer THEN h0 + rules.cost_via ELSE h0
    IN  (h * rules.cost_straight) \div 1000

\* cost_congestion * (1 + 2 * excess), rounded down to a thousandth
GetCongestionCost(g, x, y, layer) ==
    LET c == GetCongestion(g, x, y, layer)
        full == CongestionSize * CongestionSize
    IN  IF c > rules.congestion_threshold
        THEN (rules.cost_congestion * (full + 2 * (c - rules.congestion_threshold))) \div full
        ELSE 0

AStarNode(f, g, x, y, layer, parent_idx, via_from_parent, dx, dy) ==
    [f_score |-> f, g_score |-> g, x |-> x, y |-> y, layer |-> layer,
     parent_idx |-> parent_idx, via_from_parent |-> via_from_parent, dx |-> dx, dy |-> dy]

Key(n) == <<n.x, n.y, n.layer>>

\* the values a sequence holds (std::find over a layer list)
Range(seq) == {seq[i] : i \in 1..Len(seq)}

ValidStartLayers(a) == IF a.start_layers = << >> THEN <<a.start_layer>> ELSE a.start_layers
ValidEndLayers(a) == IF a.end_layers = << >> THEN <<a.end_layer>> ELSE a.end_layers
StartG(a) == WorldToGrid(a.start_x, a.start_y)
EndG(a) == WorldToGrid(a.end_x, a.end_y)

\* a faulty variant whose cap counts the layers as well
MaxIterationsPerLayer == cols * rows * layers * 4

MaxIterations == cols * rows * 4

\* route(), the tests of a 2-D move from (x, y, layer) by (dx, dy) up to the
\* closed-set test
CanStep(g, a, x, y, layer, dx, dy) ==
    LET nx == x + dx
        ny == y + dy
    IN  /\ IsValid(nx, ny, layer)
        /\ (dx # 0 /\ dy # 0)
               => ~IsDiagonalBlocked(g, x, y, dx, dy, layer, a.net, a.negotiated_mode)
        /\ LET cell == At(g, nx, ny, layer)
               is_start == <<nx, ny>> = StartG(a) /\ layer \in Range(ValidStartLayers(a))
               is_end == <<nx, ny>> = EndG(a) /\ layer \in Range(ValidEndLayers(a))
           IN  cell.blocked =>
                   IF is_start \/ is_end THEN cell.net = a.net
                   ELSE ~IsTraceBlocked(g, nx, ny, layer, a.net, a.negotiated_mode)

\* route(), the cost of that move for a node that arrived with direction (cdx, cdy)
StepCost(g, a, cdx, cdy, nx, ny, nlayer, nb) ==
    LET turn_cost == IF (cdx # 0 \/ cdy # 0) /\ (cdx # nb.dx \/ cdy # nb.dy)
                     THEN rules.cost_turn ELSE 0
        congestion_cost == GetCongestionCost(g, nx, ny, nlayer)
        negotiated_cost == IF a.negotiated_mode
                           THEN GetNegotiatedCost(g, nx, ny, nlayer, a.present_cost_factor)
                           ELSE 0
    IN  FAdd((nb.cost_mult * rules.cost_straight) \div 1000 + turn_cost + congestion_cost,
             negotiated_cost)

\* route(), the tests of a layer change at (x, y) up to the closed-set test
CanVia(g, a, x, y, layer, new_layer) ==
    /\ new_layer # layer
    /\ ~IsViaBlocked(g, x, y, a.net, a.negotiated_mode)

ViaCost(g, a, x, y, new_layer) ==
    LET congestion_cost == GetCongestionCost(g, x, y, new_layer)
        negotiated_cost == IF a.negotiated_mode
                           THEN GetNegotiatedCost(g, x, y, new_layer, a.present_cost_factor)
                           ELSE 0
    IN  FAdd(rules.cost_via + congestion_cost, negotiated_cost)

\* f = new_g + weight * h
FScore(a, new_g, x, y, layer) ==
    LET h == Heuristic(x, y, layer, EndG(a)[1], EndG(a)[2], ValidEndLayers(a)[1])
    IN  FAdd(new_g, (a.weight * h) \div 1000)

\* the nodes the initialisation loop pushes, one per valid start layer
StartNodes(a) ==
    {AStarNode(Heuristic(StartG(a)[1], StartG(a)[2], sl,
                         EndG(a)[1], EndG(a)[2], ValidEndLayers(a)[1]),
               0, StartG(a)[1], StartG(a)[2], sl, -1, FALSE, 0, 0) :
        sl \in Range(ValidStartLayers(a))}

\* is the position new to g_scores, or reached with a better g
Improves(gs, key, new_g) == key \notin DOMAIN gs \/ new_g < gs[key]

\* new_g of the 2-D move nb from current
NewG2D(g, a, current, nb) ==
    FAdd(current.g_score,
         StepCost(g, a, current.dx, current.dy,
                  current.x + nb.dx, current.y + nb.dy, current.layer, nb))

\* the nodes the 2-D neighbour loop pushes for current, stored at current_idx
Pushes2D(g, a, gs, closed, current, current_idx) ==
    {AStarNode(FScore(a, NewG2D(g, a, current, nb),
                      current.x + nb.dx, current.y + nb.dy, current.layer),
               NewG2D(g, a, current, nb),
               current.x + nb.dx, current.y + nb.dy, current.layer,
               current_idx, FALSE, nb.dx, nb.dy) :
        nb \in {m \in Range(Neighbors2D) :
                  /\ CanStep(g, a, current.x, current.y, current.layer, m.dx, m.dy)
                  /\ <<current.x + m.dx, current.y + m.dy, current.layer>> \notin closed
                  /\ Improves(gs, <<current.x + m.dx, current.y + m.dy, current.layer>>,
                              NewG2D(g, a, current, m))}}

\* new_g of the layer change to new_layer at current
NewGVia(g, a, current, new_layer) ==
    FAdd(current.g_score, ViaCost(g, a, current.x, current.y, new_layer))

\* the nodes the layer-change loop pushes for current
PushesVia(g, a, gs, closed, current, current_idx) ==
    {AStarNode(FScore(a, NewGVia(g, a, current, new_layer),
                      current.x, current.y, new_layer),
               NewGVia(g, a, current, new_layer),
               current.x, current.y, new_layer,
               current_idx, TRUE, current.dx, current.dy) :
        new_layer \in {l \in Range(routable_layers) :
                         /\ CanVia(g, a, current.x, current.y, current.layer, l)
                         /\ <<current.x, current.y, l>> \notin closed
                         /\ Improves(gs, <<current.x, current.y, l>>,
                                     NewGVia(g, a, current, l))}}

\* g_scores after the pushes
Record(gs, pushes) ==
    [k \in DOMAIN gs \cup {Key(n) : n \in pushes} |->
        IF \E n \in pushes : Key(n) = k
        THEN (CHOOSE n \in pushes : Key(n) = k).g_score
        ELSE gs[k]]

\* open_set.top(): a node of least f_score
TopNodes(open) == {n \in open : \A m \in open : n.f_score <= m.f_score}

\* reconstruct_path: the chain of parents from end_idx, start first, as
\* (wx, wy, layer, via_from_parent)
RECURSIVE PathBack(_, _)
PathBack(list, idx) ==
    IF idx >= 0 /\ idx < Len(list)
    THEN LET node == list[idx + 1]
         IN  PathBack(list, node.parent_idx)
                 \o << [wx |-> GridToWorld(node.x, node.y)[1],
                        wy |-> GridToWorld(node.x, node.y)[2],
                        layer |-> node.layer, is_via |-> node.via_from_parent] >>
    ELSE << >>

\* |a - b| > 0.01f
Moved(a, b) == Abs(a - b) > 10

Segment(x1, y1, x2, y2, layer, net) ==
    [kind |-> "segment", x1 |-> x1, y1 |-> y1, x2 |-> x2, y2 |-> y2,
     width |-> rules.trace_width, layer |-> layer, net |-> net]

\* a faulty variant that records the new layer on both sides
ViaSameLayer(x, y, layer_from, layer_to, net) ==
    [kind |-> "via", x |-> x, y |-> y, drill |-> rules.via_drill,
     diameter |-> rules.via_diameter, layer_from |-> layer_to,
     layer_to |-> layer_to, net |-> net]

Via(x, y, layer_from, layer_to, net) ==
    [kind |-> "via", x |-> x, y |-> y, drill |-> rules.via_drill,
     diameter |-> rules.via_diameter, layer_from |-> layer_from,
     layer_to |-> layer_to, net |-> net]

\* reconstruct_path's conversion loop from path[i] on: the segments and vias
\* in the order they are pushed, followed by the final segment to the end
RECURSIVE Emit(_, _, _, _, _, _, _, _)
Emit(path, i, current_x, current_y, current_layer, end_x, end_y, net) ==
    IF i > Len(path)
    THEN IF Moved(end_x, current_x) \/ Moved(end_y, current_y)
         THEN << Segment(current_x, current_y, end_x, end_y, current_layer, net) >>
         ELSE << >>
    ELSE LET p == path[i]
         IN  IF p.is_via
             THEN << Via(current_x, current_y, current_layer, p.layer, net) >>
                      \o Emit(path, i + 1, current_x, current_y, p.layer, end_x, end_y, net)
             ELSE IF Moved(p.wx, current_x) \/ Moved(p.wy, current_y)
                  THEN << Segment(current_x, current_y, p.wx, p.wy, p.layer, net) >>
                           \o Emit(path, i + 1, p.wx, p.wy, p.layer, end_x, end_y, net)
                  ELSE Emit(path, i + 1, current_x, current_y, current_layer,
                            end_x, end_y, net)

\* everything reconstruct_path emits, in order
Emitted(list, end_idx, start_x, start_y, end_x, end_y, net) ==
    LET path == PathBack(list, end_idx)
    IN  IF Len(path) < 2 THEN << >>
        ELSE Emit(path, 1, start_x, start_y, path[1].layer, end_x, end_y, net)

IsSegment(e) == e.kind = "segment"
IsVia(e) == e.kind = "via"

RouteResult(segments, vias, net, success) ==
    [segments |-> segments, vias |-> vias, net |-> net, success |-> success]

\* a faulty variant that forgets result.net = net
NoResultNet(net) == RouteResult(<< >>, << >>, 0, FALSE)

\* route()'s result as initialised: the requested net, success = false
NoResult(net) == RouteResult(<< >>, << >>, net, FALSE)

ReconstructPath(list, end_idx, start_x, start_y, end_x, end_y, net) ==
    LET out == Emitted(list, end_idx, start_x, start_y, end_x, end_y, net)
    IN  RouteResult(SelectSeq(out, IsSegment), SelectSeq(out, IsVia), net, TRUE)

-----------------------------------------------------------------------------
(* The grid operations as actions of the host program *)

Cur == [cells |-> cells, congestion |-> congestion, oob |-> oob]

Nets == 0..2
PadNets == 1..2

\* arguments handed to the operations: every cell, and coordinates outside the
\* grid on each side
ValidPoints == (0..(cols - 1)) \X (0..(rows - 1))
PointsIn == ValidPoints \cup {<<-1, 0>>, <<cols, rows - 1>>, <<0, rows>>}
SegmentsIn == (ValidPoints \X ValidPoints)
                  \cup {<< <<-1, 0>>, <<1, 1>> >>, << <<0, 0>>, <<cols, rows - 1>> >>}
RectsIn == {r \in SegmentsIn : r[1][1] <= r[2][1] /\ r[1][2] <= r[2][2]}
LayersIn == 0..layers
CounterLayersIn == (-1)..layers
ClearanceIn == 0..1

Becomes(g) ==
    /\ cells' = g.cells
    /\ congestion' = g.congestion
    /\ oob' = g.oob
    /\ nops' = nops + 1
    /\ pc = "idle"
    /\ UNCHANGED <<cols, rows, layers, finderVars, routeVars, heuristicVars>>

MarkBlockedOp ==
    /\ nops < MaxOps
    /\ \E p \in PointsIn, l \in LayersIn, n \in Nets, o \in BOOLEAN :
           Becomes(MarkBlocked(Cur, p[1], p[2], l, n, o))

MarkRectBlockedOp ==
    /\ nops < MaxOps
    /\ \E s \in RectsIn, l \in LayersIn, n \in Nets, o \in BOOLEAN :
           Becomes(MarkRectBlocked(Cur, s[1][1], s[1][2], s[2][1], s[2][2], l, n, o))

MarkSegmentOp ==
    /\ nops < MaxOps
    /\ \E s \in SegmentsIn, l \in LayersIn, n \in Nets, k \in ClearanceIn :
           Becomes(MarkSegment(Cur, s[1][1], s[1][2], s[2][1], s[2][2], l, n, k))

UnmarkSegmentOp ==
    /\ nops < MaxOps
    /\ \E s \in SegmentsIn, l \in LayersIn, n \in Nets, k \in ClearanceIn :
           Becomes(UnmarkSegment(Cur, s[1][1], s[1][2], s[2][1], s[2][2], l, n, k))

MarkViaOp ==
    /\ nops < MaxOps
    /\ \E p \in PointsIn, n \in Nets, r \in ClearanceIn :
           Becomes(MarkVia(Cur, 0, p[1], p[2], n, r))

UnmarkViaOp ==
    /\ nops < MaxOps
    /\ \E p \in PointsIn, n \in Nets, r \in ClearanceIn :
           Becomes(UnmarkVia(Cur, 0, p[1], p[2], n, r))

\* a write outside congestion_ is undefined behaviour: the counters are left
\* alone or any one of them is hit
UpdateCongestionOp ==
    /\ nops < MaxOps
    /\ \E p \in PointsIn \cup {<<-CongestionSize, 0>>}, l \in CounterLayersIn, d \in {-1, 1} :
           LET g == UpdateCongestion(Cur, p[1], p[2], l, d)
           IN  IF CongestionIndex(p[1], p[2], l) < CongestionCells
               THEN Becomes(g)
               ELSE \E i \in (DOMAIN congestion) \cup {-1} :
                       Becomes(IF i = -1 THEN g
                               ELSE [g EXCEPT !.congestion[i] = @ + d])

IncrementUsageOp ==
    /\ nops < MaxOps
    /\ \E p \in PointsIn, l \in CounterLayersIn :
           /\ IsValid(p[1], p[2], l) => At(Cur, p[1], p[2], l).usage_count < MaxUsage
           /\ Becomes(IncrementUsage(Cur, p[1], p[2], l))

SetPadOp ==
    /\ nops < MaxOps
    /\ \E p \in ValidPoints, l \in 0..(layers - 1), n \in PadNets :
           Becomes(SetPad(Cur, p[1], p[2], l, n))

\* Grid3D(cols, rows, layers, ...): the dimensions the host constructs
GridDims == {<<2, 2, 1>>, <<2, 1, 2>>}

\* a freshly constructed grid of the dimensions d
FreshGrid(d) ==
    /\ cols = d[1] /\ rows = d[2] /\ layers = d[3]
    /\ cells = NewGrid(d[1], d[2], d[3]).cells
    /\ congestion = NewGrid(d[1], d[2], d[3]).congestion
    /\ oob = FALSE
    /\ nops = 0

\* no route() call was made yet
NoArgs == [net |-> 0]

IdleRoute ==
    /\ pc = "idle"
    /\ args = NoArgs
    /\ open_set = {}
    /\ closed_set = {}
    /\ g_scores = << >>
    /\ closed_list = << >>
    /\ last_iterations = 0
    /\ last_nodes_explored = 0
    /\ result = NoResult(0)
    /\ hquery = << >>
    /\ hvalue = 0

\* Pathfinder(grid, rules, diagonal_routing)
NewPathfinder(r, diagonal) ==
    /\ rules = r
    /\ diagonal_routing = diagonal
    /\ routable_layers = AllLayers(layers)

InitGrid ==
    /\ \E d \in GridDims : FreshGrid(d)
    /\ NewPathfinder(DesignRules, TRUE)
    /\ IdleRoute

NextGrid ==
    \/ MarkBlockedOp
    \/ MarkRectBlockedOp
    \/ MarkSegmentOp
    \/ UnmarkSegmentOp
    \/ MarkViaOp
    \/ UnmarkViaOp
    \/ SetPadOp

SpecGrid == InitGrid /\ [][NextGrid]_vars

\* the counters: congestion and usage
NextCounters ==
    \/ MarkSegmentOp
    \/ MarkViaOp
    \/ UnmarkSegmentOp
    \/ UnmarkViaOp
    \/ UpdateCongestionOp
    \/ IncrementUsageOp

SpecCounters == InitGrid /\ [][NextCounters]_vars

\* the operations the cell invariant is stated for (the host sets no field itself)
NextMarks ==
    \/ MarkBlockedOp
    \/ MarkRectBlockedOp
    \/ MarkSegmentOp
    \/ UnmarkSegmentOp
    \/ MarkViaOp
    \/ UnmarkViaOp

SpecMarks == InitGrid /\ [][NextMarks]_vars

\* a host that lays and rips up traces and vias on a board wide enough for two
\* congestion blocks per layer
WideDims == {<<17, 2, 2>>}

\* points on both sides of the block boundary at x = 8, at the edges and outside
WidePointsIn == {<<0, 0>>, <<7, 1>>, <<8, 0>>, <<cols - 1, 1>>, <<-1, 0>>, <<cols, 1>>}
WideSegmentsIn ==
    {<< <<7, 1>>, <<8, 0>> >>, << <<0, 0>>, <<cols - 1, 1>> >>, << <<8, 0>>, <<0, 0>> >>,
     << <<-1, 0>>, <<7, 1>> >>, << <<8, 0>>, <<cols, 1>> >>}
WideNets == 1..2

MarkSegmentWide ==
    /\ nops < MaxOps
    /\ \E s \in WideSegmentsIn, l \in LayersIn, n \in WideNets, k \in ClearanceIn :
           Becomes(MarkSegment(Cur, s[1][1], s[1][2], s[2][1], s[2][2], l, n, k))

UnmarkSegmentWide ==
    /\ nops < MaxOps
    /\ \E s \in WideSegmentsIn, l \in LayersIn, n \in WideNets, k \in ClearanceIn :
           Becomes(UnmarkSegment(Cur, s[1][1], s[1][2], s[2][1], s[2][2], l, n, k))

MarkViaWide ==
    /\ nops < MaxOps
    /\ \E p \in WidePointsIn, n \in WideNets, r \in ClearanceIn :
           Becomes(MarkVia(Cur, 0, p[1], p[2], n, r))

UnmarkViaWide ==
    /\ nops < MaxOps
    /\ \E p \in WidePointsIn, n \in WideNets, r \in ClearanceIn :
           Becomes(UnmarkVia(Cur, 0, p[1], p[2], n, r))

InitWide ==
    /\ \E d \in WideDims : FreshGrid(d)
    /\ NewPathfinder(DesignRules, TRUE)
    /\ IdleRoute

NextWide ==
    \/ MarkSegmentWide
    \/ UnmarkSegmentWide
    \/ MarkViaWide
    \/ UnmarkViaWide

SpecWide == InitWide /\ [][NextWide]_vars

\* a host that lays and rips up traces on a board with room for a shallow line
OrderDims == {<<3, 2, 1>>}

InitOrder ==
    /\ \E d \in OrderDims : FreshGrid(d)
    /\ NewPathfinder(DesignRules, TRUE)
    /\ IdleRoute

NextOrder ==
    \/ MarkSegmentOp
    \/ UnmarkSegmentOp

SpecOrder == InitOrder /\ [][NextOrder]_vars

\* a rip-up-and-reroute host: usage counting and history update between passes
HistoryIncrementIn == {500, 1000}

\* the number of increment_usage(0, 0, 0) calls of the passes already made
UsageIn == {0, 1, 32766}

IncrementUsageCall ==
    /\ nops < MaxOps
    /\ \E p \in PointsIn, l \in CounterLayersIn :
           Becomes(IncrementUsage(Cur, p[1], p[2], l))

UpdateHistoryCostsCall ==
    /\ nops < MaxOps
    /\ \E inc \in HistoryIncrementIn :
           Becomes(UpdateHistoryCosts(Cur, inc))

\* a fresh grid on which increment_usage(0, 0, 0) was called n times, n < 2^15
UsedGrid(d, n) ==
    /\ cols = d[1] /\ rows = d[2] /\ layers = d[3]
    /\ cells = [NewGrid(d[1], d[2], d[3]).cells EXCEPT ![0].usage_count = n]
    /\ congestion = NewGrid(d[1], d[2], d[3]).congestion
    /\ oob = FALSE
    /\ nops = 0

InitUsage ==
    /\ \E d \in GridDims, n \in UsageIn : UsedGrid(d, n)
    /\ NewPathfinder(DesignRules, TRUE)
    /\ IdleRoute

NextUsage ==
    \/ IncrementUsageCall
    \/ UpdateHistoryCostsCall

SpecUsage == InitUsage /\ [][NextUsage]_vars

-----------------------------------------------------------------------------
(* A host that places obstacles and then routes one net *)

\* the cells the host blocks or uses before routing, all on layer 0
ObstaclePointsIn == {<<0, 1>>, <<1, 0>>, <<1, 1>>, <<2, 1>>} \cap ValidPoints

MarkBlockedSetup ==
    /\ nops < MaxOps
    /\ \E p \in ObstaclePointsIn, n \in PadNets, o \in BOOLEAN :
           Becomes(MarkBlocked(Cur, p[1], p[2], 0, n, o))

IncrementUsageSetup ==
    /\ nops < MaxOps
    /\ \E p \in ObstaclePointsIn :
           Becomes(IncrementUsage(Cur, p[1], p[2], 0))

\* the arguments of route(): world points on and off the cell centres (they are
\* clamped into a smaller grid), the routed net, layers and layer lists
StartsIn == {<<0, 0>>, <<1000, 1000>>}
EndsIn == {<<2000, 1000>>, <<1000, 1000>>, <<1000, 1300>>}
RoutedNets == {1}
EndLayerIn == {0, layers - 1}
StartLayersIn == {<< >>} \cup (IF layers > 2 THEN {AllLayers(layers - 1)} ELSE {})
EndLayersIn == {<< >>} \cup (IF layers > 1 THEN {<<layers - 1, 0>>} ELSE {})
WeightIn == {1000}
PresentCostFactorIn == {1000}

RouteArgs(s, e, el, net, sls, els, neg, pcf, w) ==
    [start_x |-> s[1], start_y |-> s[2], start_layer |-> 0,
     end_x |-> e[1], end_y |-> e[2], end_layer |-> el, net |-> net,
     start_layers |-> sls, end_layers |-> els, negotiated_mode |-> neg,
     present_cost_factor |-> pcf, weight |-> w]

\* route() up to the loop: the result is initialised and the start nodes pushed
RouteBegin ==
    /\ pc = "idle"
    /\ \E s \in StartsIn, e \in EndsIn, el \in EndLayerIn, net \in RoutedNets,
          sls \in StartLayersIn, els \in EndLayersIn, neg \in BOOLEAN,
          pcf \in PresentCostFactorIn, w \in WeightIn :
           LET a == RouteArgs(s, e, el, net, sls, els, neg, pcf, w)
           IN  /\ args' = a
               /\ result' = NoResult(net)
               /\ open_set' = StartNodes(a)
               /\ g_scores' = [k \in {Key(n) : n \in StartNodes(a)} |-> 0]
    /\ closed_set' = {}
    /\ closed_list' = << >>
    /\ last_iterations' = 0
    /\ last_nodes_explored' = 0
    /\ pc' = "search"
    /\ UNCHANGED <<gridVars, finderVars, heuristicVars>>

IsGoal(a, n) == <<n.x, n.y>> = EndG(a) /\ n.layer \in Range(ValidEndLayers(a))

\* the ints that may lie beyond congestion_: none, most or all of a block's cells
StrayIn == {0, 48, 64}

\* the grid as route() reads it, with the int it finds beyond congestion_
Memory(stray) == [cells |-> cells, congestion |-> congestion, oob |-> oob, stray |-> stray]

\* does the layer-change loop for current call get_congestion_cost with a layer
\* whose counters lie outside congestion_
ReadsBeyond(a, closed, current) ==
    \E l \in Range(routable_layers) :
        /\ CanVia(Cur, a, current.x, current.y, current.layer, l)
        /\ <<current.x, current.y, l>> \notin closed
        /\ CongestionIndex(current.x, current.y, l) >= CongestionCells

\* one iteration of route()'s loop.  A read beyond congestion_ is undefined
\* behaviour: the process is killed, or the loop goes on with the int found
RouteStep ==
    /\ pc = "search"
    /\ open_set # {}
    /\ last_iterations < MaxIterations
    /\ last_iterations' = last_iterations + 1
    /\ \E current \in TopNodes(open_set) :
           LET rest == open_set \ {current}
               current_idx == Len(closed_list)
               list == Append(closed_list, current)
               closed == closed_set \cup {Key(current)}
               beyond == ReadsBeyond(args, closed, current)
           IN  IF Key(current) \in closed_set
               THEN /\ open_set' = rest
                    /\ UNCHANGED <<pc, closed_set, g_scores, closed_list,
                                   last_nodes_explored, result, oob>>
               ELSE /\ closed_set' = closed
                    /\ closed_list' = list
                    /\ last_nodes_explored' = last_nodes_explored + 1
                    /\ IF IsGoal(args, current)
                       THEN /\ result' = [ReconstructPath(list, current_idx,
                                              args.start_x, args.start_y,
                                              args.end_x, args.end_y, args.net)
                                          EXCEPT !.success = TRUE]
                            /\ pc' = "done"
                            /\ open_set' = rest
                            /\ UNCHANGED <<g_scores, oob>>
                       ELSE /\ oob' = (oob \/ beyond)
                            /\ \/ /\ beyond
                                  /\ pc' = "killed"
                                  /\ open_set' = rest
                                  /\ UNCHANGED <<g_scores, result>>
                               \/ \E stray \in IF beyond THEN StrayIn ELSE {0} :
                                     LET pushes ==
                                             Pushes2D(Memory(stray), args, g_scores, closed,
                                                      current, current_idx)
                                             \cup PushesVia(Memory(stray), args, g_scores,
                                                             closed, current, current_idx)
                                     IN  /\ open_set' = rest \cup pushes
                                         /\ g_scores' = Record(g_scores, pushes)
                                         /\ UNCHANGED <<pc, result>>
    /\ UNCHANGED <<cols, rows, layers, cells, congestion, nops,
                   finderVars, heuristicVars, args>>

\* a faulty variant that records the failed attempt in the grid's usage counts
RouteReturnCounting ==
    /\ pc = "search"
    /\ open_set = {} \/ last_iterations >= MaxIterations
    /\ pc' = "done"
    /\ cells' = IncrementUsage(Cur, StartG(args)[1], StartG(args)[2], 0).cells
    /\ UNCHANGED <<cols, rows, layers, congestion, oob, nops, finderVars, heuristicVars,
                   args, open_set, closed_set, g_scores, closed_list, last_iterations,
                   last_nodes_explored, result>>

\* the loop ends without a goal: route() returns the result as initialised
RouteReturn ==
    /\ pc = "search"
    /\ open_set = {} \/ last_iterations >= MaxIterations
    /\ pc' = "done"
    /\ UNCHANGED <<gridVars, finderVars, heuristicVars, args, open_set, closed_set,
                   g_scores, closed_list, last_iterations, last_nodes_explored, result>>

RouteDims == {<<3, 2, 1>>, <<3, 3, 2>>, <<1, 1, 6>>}
CostStraightIn == {1000, 2000}

InitRoute ==
    /\ \E d \in RouteDims : FreshGrid(d)
    /\ \E cs \in CostStraightIn :
           NewPathfinder([DesignRules EXCEPT !.cost_straight = cs], TRUE)
    /\ IdleRoute

NextRoute ==
    \/ MarkBlockedSetup
    \/ IncrementUsageSetup
    \/ RouteBegin
    \/ RouteStep
    \/ RouteReturn

SpecRoute == InitRoute /\ [][NextRoute]_vars

-----------------------------------------------------------------------------
(* A host that routes along a row of a single-layer board *)

\* the 20 x 20 board of the straight-trace scenario, and a three-cell row
StraightDims == {<<20, 20, 1>>, <<3, 1, 1>>}

\* trace_width = clearance = one grid step, the proportions of that scenario
StraightRules == [DesignRules EXCEPT !.trace_width = 1000, !.trace_clearance = 1000]

\* start and end cells in one row: the scenario's (1, 10) -> (19, 10) on the
\* 20 x 20 board, and the whole last row
StraightRoutesIn ==
    {<< <<1, rows \div 2>>, <<cols - 1, rows \div 2>> >>,
     << <<0, rows - 1>>, <<cols - 1, rows - 1>> >>}

StraightNets == {7}

RouteBeginStraight ==
    /\ pc = "idle"
    /\ \E r \in StraightRoutesIn, net \in StraightNets, neg \in BOOLEAN :
           LET a == RouteArgs(GridToWorld(r[1][1], r[1][2]), GridToWorld(r[2][1], r[2][2]),
                              0, net, << >>, << >>, neg, 1000, 1000)
           IN  /\ args' = a
               /\ result' = NoResult(net)
               /\ open_set' = StartNodes(a)
               /\ g_scores' = [k \in {Key(n) : n \in StartNodes(a)} |-> 0]
    /\ closed_set' = {}
    /\ closed_list' = << >>
    /\ last_iterations' = 0
    /\ last_nodes_explored' = 0
    /\ pc' = "search"
    /\ UNCHANGED <<gridVars, finderVars, heuristicVars>>

InitStraight ==
    /\ \E d \in StraightDims : FreshGrid(d)
    /\ \E diagonal \in BOOLEAN : NewPathfinder(StraightRules, diagonal)
    /\ IdleRoute

NextStraight ==
    \/ MarkBlockedSetup
    \/ RouteBeginStraight
    \/ RouteStep
    \/ RouteReturn

SpecStraight == InitStraight /\ [][NextStraight]_vars

-----------------------------------------------------------------------------
(* A host that walls off layer 0 of a two-layer board, then routes pad to pad *)

\* the via-required scenario: the 20 x 20 x 2 board at resolution 0.1 with the
\* default rules (on this model's 1 mm grid the rules are scaled by ten, which
\* gives the same radii in cells), pads at cells (1, 1) and (19, 19); and a
\* 7 x 7 x 2 board with a via radius of one cell and pads one cell off the edge,
\* routed with diagonal moves
ViaScenarios ==
    {[dims |-> <<20, 20, 2>>, from |-> <<1, 1>>, to |-> <<19, 19>>,
      diagonal |-> BOOLEAN,
      rules |-> [DesignRules EXCEPT !.trace_width = 1270, !.trace_clearance = 1270,
                                    !.via_drill = 3000, !.via_diameter = 6000,
                                    !.via_clearance = 1270]],
     [dims |-> <<7, 7, 2>>, from |-> <<1, 1>>, to |-> <<5, 5>>,
      diagonal |-> {TRUE}, rules |-> DesignRules]}

\* the pad at an endpoint: the cells within this Chebyshev distance of it
PadRadiusIn == {0, 1}

InPad(p, q, r) == Abs(p[1] - q[1]) <= r /\ Abs(p[2] - q[2]) <= r

\* the cells after mark_blocked(x, y, 0, 0, true) on every cell of layer 0
\* outside the two pads
WalledCells(sc, r) ==
    [i \in 0..(sc.dims[1] * sc.dims[2] * sc.dims[3] - 1) |->
        LET x == i % sc.dims[1]
            y == (i \div sc.dims[1]) % sc.dims[2]
            layer == i \div (sc.dims[1] * sc.dims[2])
        IN  IF layer = 0 /\ ~InPad(<<x, y>>, sc.from, r) /\ ~InPad(<<x, y>>, sc.to, r)
            THEN [GridCell EXCEPT !.blocked = TRUE, !.net = 0, !.is_obstacle = TRUE]
            ELSE GridCell]

ViaNets == {1}

RouteBeginVia ==
    /\ pc = "idle"
    /\ \E sc \in {c \in ViaScenarios : c.dims = <<cols, rows, layers>>},
          net \in ViaNets, neg \in BOOLEAN :
           LET a == RouteArgs(GridToWorld(sc.from[1], sc.from[2]),
                              GridToWorld(sc.to[1], sc.to[2]),
                              0, net, << >>, << >>, neg, 1000, 1000)
           IN  /\ args' = a
               /\ result' = NoResult(net)
               /\ open_set' = StartNodes(a)
               /\ g_scores' = [k \in {Key(n) : n \in StartNodes(a)} |-> 0]
    /\ closed_set' = {}
    /\ closed_list' = << >>
    /\ last_iterations' = 0
    /\ last_nodes_explored' = 0
    /\ pc' = "search"
    /\ UNCHANGED <<gridVars, finderVars, heuristicVars>>

InitVia ==
    /\ \E sc \in ViaScenarios, r \in PadRadiusIn :
           /\ cols = sc.dims[1] /\ rows = sc.dims[2] /\ layers = sc.dims[3]
           /\ cells = WalledCells(sc, r)
           /\ congestion = NewGrid(sc.dims[1], sc.dims[2], sc.dims[3]).congestion
           /\ oob = FALSE
           /\ nops = 0
           /\ \E diagonal \in sc.diagonal : NewPathfinder(sc.rules, diagonal)
    /\ IdleRoute

NextVia ==
    \/ RouteBeginVia
    \/ RouteStep
    \/ RouteReturn

SpecVia == InitVia /\ [][NextVia]_vars

-----------------------------------------------------------------------------
(* A host that places obstacles and counts usage, for the blocking predicates *)

\* boards with and without a cell whose trace footprint lies inside the board
PolicyDims == {<<3, 3, 1>>, <<3, 2, 1>>}

InitPolicy ==
    /\ \E d \in PolicyDims : FreshGrid(d)
    /\ NewPathfinder(DesignRules, TRUE)
    /\ IdleRoute

NextPolicy ==
    \/ MarkBlockedSetup
    \/ IncrementUsageSetup

SpecPolicy == InitPolicy /\ [][NextPolicy]_vars

-----------------------------------------------------------------------------
(* A host that chooses the routable layers and the start and end layers *)

LayersDims == {<<3, 3, 2>>}

\* layer lists for set_routable_layers: the layers of the board, one of them,
\* and lists that name a layer the board does not have
RoutableLayersIn == {<<0, 1>>, <<1>>, <<0, 2>>, <<-1, 1>>}

SetRoutableLayers ==
    /\ pc = "idle"
    /\ \E ls \in RoutableLayersIn :
           /\ routable_layers # ls
           /\ routable_layers' = ls
    /\ UNCHANGED <<gridVars, rules, diagonal_routing, routeVars, heuristicVars>>

\* start_layers arguments, valid and not; the end layer, which route() only
\* compares with the layers of the nodes it pops
LayerListsIn == {<< >>, <<layers>>, <<0, -1>>}
LayerIn == 0..(layers - 1)

RouteBeginLayers ==
    /\ pc = "idle"
    /\ \E e \in {<<2, 1>>, <<1, 1>>}, el \in LayerIn, sls \in LayerListsIn,
          net \in RoutedNets, neg \in BOOLEAN :
           LET a == RouteArgs(GridToWorld(1, 1), GridToWorld(e[1], e[2]), el, net,
                              sls, << >>, neg, 1000, 1000)
           IN  /\ args' = a
               /\ result' = NoResult(net)
               /\ open_set' = StartNodes(a)
               /\ g_scores' = [k \in {Key(n) : n \in StartNodes(a)} |-> 0]
    /\ closed_set' = {}
    /\ closed_list' = << >>
    /\ last_iterations' = 0
    /\ last_nodes_explored' = 0
    /\ pc' = "search"
    /\ UNCHANGED <<gridVars, finderVars, heuristicVars>>

InitLayers ==
    /\ \E d \in LayersDims : FreshGrid(d)
    /\ NewPathfinder(DesignRules, TRUE)
    /\ IdleRoute

NextLayers ==
    \/ SetRoutableLayers
    \/ RouteBeginLayers
    \/ RouteStep
    \/ RouteReturn

SpecLayers == InitLayers /\ [][NextLayers]_vars

-----------------------------------------------------------------------------
(* heuristic() as a function of its arguments *)

HeuristicOp ==
    /\ pc = "idle"
    /\ \E p \in ValidPoints, l \in 0..(layers - 1), goal \in ValidPoints,
          els \in {<<0>>, <<layers - 1>>, <<layers - 1, 0>>} :
           /\ hquery' = [x |-> p[1], y |-> p[2], layer |-> l,
                         goal_x |-> goal[1], goal_y |-> goal[2], end_layers |-> els]
           /\ hvalue' = Heuristic(p[1], p[2], l, goal[1], goal[2], els[1])
    /\ pc' = "asked"
    /\ UNCHANGED <<gridVars, finderVars, args, open_set, closed_set, g_scores,
                   closed_list, last_iterations, last_nodes_explored, result>>

InitHeuristic ==
    /\ \E d \in RouteDims : FreshGrid(d)
    /\ \E cs \in CostStraightIn, diagonal \in BOOLEAN :
           NewPathfinder([DesignRules EXCEPT !.cost_straight = cs], diagonal)
    /\ IdleRoute

NextHeuristic == HeuristicOp

SpecHeuristic == InitHeuristic /\ [][NextHeuristic]_vars

-----------------------------------------------------------------------------
(* Footprints, as the claims speak of them *)

\* the valid cells within Chebyshev distance k of a cell of the segment's line
SegmentFootprint(x1, y1, x2, y2, layer, k) ==
    LET line == LineCells(x1, y1, x2, y2)
    IN  {Index(p[1], p[2], layer) :
            p \in {q \in ValidPoints :
                      /\ IsValid(q[1], q[2], layer)
                      /\ \E j \in 1..Len(line) :
                             /\ Abs(q[1] - line[j][1]) <= k
                             /\ Abs(q[2] - line[j][2]) <= k}}

\* the valid cells, on every layer, within Chebyshev distance r of (x, y)
ViaFootprint(x, y, r) ==
    {Index(q[1], q[2], l) :
        q \in {p \in ValidPoints : Abs(p[1] - x) <= r /\ Abs(p[2] - y) <= r},
        l \in 0..(layers - 1)}

IsPad(cell) == cell.pad_blocked /\ cell.blocked

-----------------------------------------------------------------------------
(* The returned path and the cheapest legal path *)

\* the nodes of the chain of parents from closed_list[idx], start first
RECURSIVE NodesBack(_, _)
NodesBack(list, idx) ==
    IF idx >= 0 /\ idx < Len(list)
    THEN NodesBack(list, list[idx + 1].parent_idx) \o << list[idx + 1] >>
    ELSE << >>

Succeeded == pc = "done" /\ result.success
Failed == pc = "done" /\ (closed_list = << >> \/ ~IsGoal(args, closed_list[Len(closed_list)]))

\* the path a successful route() returns, and the g-score of its goal node
RoutedPath == NodesBack(closed_list, Len(closed_list) - 1)
RoutedCost == closed_list[Len(closed_list)].g_score

SetMin(S) == CHOOSE v \in S : \A w \in S : v <= w

\* the search states of a path: position and direction of arrival
Directions == {<<0, 0>>} \cup {<<Neighbors2D[i].dx, Neighbors2D[i].dy>> : i \in 1..Len(Neighbors2D)}
SearchStates == ValidPoints \X (0..(layers - 1)) \X Directions

\* the legal moves from the search state s, each with its cost
Moves(g, a, s) ==
    LET x == s[1][1]
        y == s[1][2]
        layer == s[2]
    IN  {<< <<<<x + nb.dx, y + nb.dy>>, layer, <<nb.dx, nb.dy>>>>,
            StepCost(g, a, s[3][1], s[3][2], x + nb.dx, y + nb.dy, layer, nb) >> :
            nb \in {m \in Range(Neighbors2D) : CanStep(g, a, x, y, layer, m.dx, m.dy)}}
        \cup
        {<< <<<<x, y>>, l, s[3]>>, ViaCost(g, a, x, y, l) >> :
            l \in {m \in Range(routable_layers) :
                      m \in 0..(layers - 1) /\ CanVia(g, a, x, y, layer, m)}}

\* shortest distances by relaxation, from the states whose distance changed
RECURSIVE Relax(_, _, _, _)
Relax(g, a, d, changed) ==
    LET cand == UNION {{<<e[1], FAdd(d[s], e[2])>> : e \in Moves(g, a, s)} : s \in changed}
        d2 == [t \in DOMAIN d |->
                  LET cs == {c[2] : c \in {e \in cand : e[1] = t}}
                  IN  IF cs = {} THEN d[t] ELSE Min(d[t], SetMin(cs))]
        ch2 == {t \in DOMAIN d : d2[t] < d[t]}
    IN  IF ch2 = {} THEN d ELSE Relax(g, a, d2, ch2)

\* the least total cost of a legal path from one of the states from to a goal
MinCost(g, a, from) ==
    LET d == Relax(g, a, [t \in SearchStates |-> IF t \in from THEN 0 ELSE Infinity], from)
    IN  SetMin({Infinity} \cup
               {d[t] : t \in {u \in SearchStates :
                                 u[1] = EndG(a) /\ u[2] \in Range(ValidEndLayers(a))}})

StartStates(a) ==
    {<<StartG(a), sl, <<0, 0>>>> : sl \in Range(ValidStartLayers(a)) \cap (0..(layers - 1))}

-----------------------------------------------------------------------------
(* C1 *)

\* C1: in every successful route in standard mode, at each grid point of the
\* path other than the start and end cells, every cell within the trace
\* footprint radius on that layer is free or belongs to the routed net.
C1_ClearanceEnforced ==
    (Succeeded /\ ~args.negotiated_mode) =>
        \A i \in 1..Len(RoutedPath) :
            LET n == RoutedPath[i]
            IN  (<<n.x, n.y>> # StartG(args) /\ <<n.x, n.y>> # EndG(args)) =>
                    \A dx \in (-TraceHalfWidthCells)..TraceHalfWidthCells,
                       dy \in (-TraceHalfWidthCells)..TraceHalfWidthCells :
                        IsValid(n.x + dx, n.y + dy, n.layer) =>
                            \/ ~At(Cur, n.x + dx, n.y + dy, n.layer).blocked
                            \/ At(Cur, n.x + dx, n.y + dy, n.layer).net = args.net

-----------------------------------------------------------------------------
(* C2 *)

\* C2: when route() succeeds with weight 1 in standard mode, the g-score of the
\* goal node it returns is the least total cost of a legal path from a start
\* node to a goal node.
C2_OptimalAtWeightOne ==
    (Succeeded /\ args.weight = 1000 /\ ~args.negotiated_mode) =>
        RoutedCost = MinCost(Cur, args, StartStates(args))

-----------------------------------------------------------------------------
(* C6 *)

\* the diagonal steps of the returned path, as <<cell left, step>>
DiagonalSteps ==
    {<<RoutedPath[i - 1], RoutedPath[i]>> :
        i \in {j \in 2..Len(RoutedPath) :
                  /\ ~RoutedPath[j].via_from_parent
                  /\ RoutedPath[j].dx # 0 /\ RoutedPath[j].dy # 0}}

\* the two orthogonal cells of a diagonal step
Corners(st) == {<<st[1].x, st[1].y + st[2].dy>>, <<st[1].x + st[2].dx, st[1].y>>}

\* C6, as claimed: in every successful route, in either mode, no diagonal step
\* of the returned path has an orthogonal cell that is blocked by a foreign net
\* or by a static obstacle.
C6_NoCornerCut ==
    Succeeded =>
        \A st \in DiagonalSteps : \A c \in Corners(st) :
            IsValid(c[1], c[2], st[2].layer) =>
                LET cell == At(Cur, c[1], c[2], st[2].layer)
                IN  ~(cell.blocked /\ (cell.is_obstacle
                                        \/ (cell.net # 0 /\ cell.net # args.net)))

\* C6, amended: both orthogonal cells of a diagonal step lie in the grid and
\* neither is a blocked static obstacle; in standard mode neither is blocked
\* with a net other than the routed one; in negotiated mode neither is blocked
\* with usage_count = 0 and a net that is 0 or not the routed one (a blocked
\* cell that is no obstacle and has usage_count > 0 does not stop the step).
C6_NoCornerCutAmended ==
    Succeeded =>
        \A st \in DiagonalSteps : \A c \in Corners(st) :
            /\ IsValid(c[1], c[2], st[2].layer)
            /\ LET cell == At(Cur, c[1], c[2], st[2].layer)
               IN  cell.blocked =>
                     /\ ~cell.is_obstacle
                     /\ ~args.negotiated_mode => cell.net = args.net
                     /\ (args.negotiated_mode /\ cell.usage_count = 0)
                            => (cell.net # 0 /\ cell.net = args.net)

\* a successful negotiated route whose path takes a diagonal step past a cell
\* that another net blocks and uses
C6_Witness ==
    /\ Succeeded /\ args.negotiated_mode
    /\ \E st \in DiagonalSteps : \E c \in Corners(st) :
           LET cell == At(Cur, c[1], c[2], st[2].layer)
           IN  /\ cell.blocked /\ ~cell.is_obstacle
               /\ cell.net # 0 /\ cell.net # args.net /\ cell.usage_count > 0

-----------------------------------------------------------------------------
(* C7 *)

\* what reconstruct_path emitted for the returned path, in order
RoutedOutput ==
    Emitted(closed_list, Len(closed_list) - 1, args.start_x, args.start_y,
            args.end_x, args.end_y, args.net)

SegmentsBefore(out, i) == {j \in 1..(i - 1) : IsSegment(out[j])}
SegmentsAfter(out, i) == {j \in (i + 1)..Len(out) : IsSegment(out[j])}
SetMax(S) == CHOOSE v \in S : \A w \in S : v >= w

\* |a - b| <= 0.01f in both coordinates
Near(x1, y1, x2, y2) == ~Moved(x1, x2) /\ ~Moved(y1, y2)

-----------------------------------------------------------------------------
(* C8 *)

\* a route from the asked node to the asked goal
HeuristicArgs ==
    RouteArgs(GridToWorld(hquery.x, hquery.y), GridToWorld(hquery.goal_x, hquery.goal_y),
              hquery.end_layers[1], 1, <<hquery.layer>>, hquery.end_layers, FALSE, 0, 1000)

\* C8: on an obstacle-free grid heuristic(p, goal), evaluated against the first
\* valid end layer, is at most the least cost of a legal path from p to a goal
\* node.
C8_HeuristicAdmissible ==
    pc = "asked" =>
        hvalue <= MinCost(Cur, HeuristicArgs, StartStates(HeuristicArgs))

-----------------------------------------------------------------------------
(* C10 *)

\* C10: when route() ends without passing the goal test, because the open set
\* is exhausted or the iteration cap is reached, the result has success =
\* false, no segments, no vias and the requested net.
C10_FailureResult ==
    Failed =>
        /\ ~result.success
        /\ result.segments = << >>
        /\ result.vias = << >>
        /\ result.net = args.net

\* a route() that stopped at the iteration cap with nodes left in the open set
C10_Witness ==
    /\ Failed
    /\ open_set # {}
    /\ last_iterations = MaxIterations
    /\ args.net # 0

-----------------------------------------------------------------------------
(* C3 *)

\* C3, as claimed: mark_segment(S, L, N, k) immediately followed by
\* unmark_segment(S, L, N, k) returns every cell of the footprint that was free
\* and not pad_blocked to blocked = false, net = 0, and leaves every cell owned
\* by a net other than N exactly as it was before the mark.
C3_RipUpInvertsMarking ==
    \A s \in SegmentsIn, l \in LayersIn, n \in Nets, k \in ClearanceIn :
        LET g1 == MarkSegment(Cur, s[1][1], s[1][2], s[2][1], s[2][2], l, n, k)
            g2 == UnmarkSegment(g1, s[1][1], s[1][2], s[2][1], s[2][2], l, n, k)
            fp == SegmentFootprint(s[1][1], s[1][2], s[2][1], s[2][2], l, k)
        IN  \A i \in DOMAIN cells :
               /\ (i \in fp /\ ~cells[i].blocked /\ ~cells[i].pad_blocked)
                      => (~g2.cells[i].blocked /\ g2.cells[i].net = 0)
               /\ (cells[i].blocked /\ cells[i].net # 0 /\ cells[i].net # n)
                      => g2.cells[i] = cells[i]

\* C3, amended: the free, non-pad cells of the footprint end free with net 0;
\* every blocked cell that is not pad_blocked and whose net differs from N
\* (net 0 included) is exactly as before; a blocked pad_blocked cell changes at
\* most its net, which becomes original_net when the cell lies in the footprint.
C3_RipUpInvertsMarkingAmended ==
    \A s \in SegmentsIn, l \in LayersIn, n \in Nets, k \in ClearanceIn :
        LET g1 == MarkSegment(Cur, s[1][1], s[1][2], s[2][1], s[2][2], l, n, k)
            g2 == UnmarkSegment(g1, s[1][1], s[1][2], s[2][1], s[2][2], l, n, k)
            fp == SegmentFootprint(s[1][1], s[1][2], s[2][1], s[2][2], l, k)
        IN  \A i \in DOMAIN cells :
               /\ (i \in fp /\ ~cells[i].blocked /\ ~cells[i].pad_blocked)
                      => (~g2.cells[i].blocked /\ g2.cells[i].net = 0)
               /\ (cells[i].blocked /\ cells[i].net # n /\ ~cells[i].pad_blocked)
                      => g2.cells[i] = cells[i]
               /\ IsPad(cells[i])
                      => g2.cells[i] =
                            [cells[i] EXCEPT !.net = IF i \in fp THEN cells[i].original_net
                                                    ELSE @]

\* a segment whose footprint holds a free cell that the mark blocks and the
\* rip-up frees, and a pad whose net was overwritten and that the rip-up restores
C3_Witness ==
    \E s \in SegmentsIn, l \in LayersIn, n \in Nets, k \in ClearanceIn :
        LET g1 == MarkSegment(Cur, s[1][1], s[1][2], s[2][1], s[2][2], l, n, k)
            g2 == UnmarkSegment(g1, s[1][1], s[1][2], s[2][1], s[2][2], l, n, k)
            fp == SegmentFootprint(s[1][1], s[1][2], s[2][1], s[2][2], l, k)
        IN  /\ \E i \in fp : /\ ~cells[i].blocked
                              /\ g1.cells[i].blocked /\ g1.cells[i].net = n
                              /\ ~g2.cells[i].blocked
            /\ \E i \in fp : /\ IsPad(cells[i]) /\ cells[i].net # cells[i].original_net
                              /\ g2.cells[i].net = cells[i].original_net

-----------------------------------------------------------------------------
(* C4 *)

\* C4, as claimed: a cell with pad_blocked, blocked and original_net = P has
\* blocked = true and net = P after any unmark_segment or unmark_via, whether or
\* not it lies in the footprint.
C4_PadProtection ==
    \A i \in DOMAIN cells :
        IsPad(cells[i]) =>
            /\ \A s \in SegmentsIn, l \in LayersIn, n \in Nets, k \in ClearanceIn :
                   LET g2 == UnmarkSegment(Cur, s[1][1], s[1][2], s[2][1], s[2][2], l, n, k)
                   IN  g2.cells[i].blocked /\ g2.cells[i].net = cells[i].original_net
            /\ \A p \in PointsIn, n \in Nets, r \in ClearanceIn :
                   LET g2 == UnmarkVia(Cur, 0, p[1], p[2], n, r)
                   IN  g2.cells[i].blocked /\ g2.cells[i].net = cells[i].original_net

\* C4, amended: such a cell has blocked = true after any unmark_segment or
\* unmark_via; its net is P when the cell lies in the footprint, and is left as
\* it was when it does not.
C4_PadProtectionAmended ==
    \A i \in DOMAIN cells :
        IsPad(cells[i]) =>
            /\ \A s \in SegmentsIn, l \in LayersIn, n \in Nets, k \in ClearanceIn :
                   LET g2 == UnmarkSegment(Cur, s[1][1], s[1][2], s[2][1], s[2][2], l, n, k)
                       fp == SegmentFootprint(s[1][1], s[1][2], s[2][1], s[2][2], l, k)
                   IN  /\ g2.cells[i].blocked
                       /\ g2.cells[i].net = IF i \in fp THEN cells[i].original_net
                                            ELSE cells[i].net
            /\ \A p \in PointsIn, n \in Nets, r \in ClearanceIn :
                   LET g2 == UnmarkVia(Cur, 0, p[1], p[2], n, r)
                       fp == ViaFootprint(p[1], p[2], r)
                   IN  /\ g2.cells[i].blocked
                       /\ g2.cells[i].net = IF i \in fp THEN cells[i].original_net
                                            ELSE cells[i].net

\* a pad whose net was overwritten lies in the footprint of an unmark_segment
\* and of an unmark_via called with the overwriting net, and gets its net back
C4_Witness ==
    \E i \in DOMAIN cells :
        /\ IsPad(cells[i]) /\ cells[i].net # cells[i].original_net
        /\ \E s \in SegmentsIn, l \in LayersIn, k \in ClearanceIn :
               /\ i \in SegmentFootprint(s[1][1], s[1][2], s[2][1], s[2][2], l, k)
               /\ UnmarkSegment(Cur, s[1][1], s[1][2], s[2][1], s[2][2], l, cells[i].net, k).cells[i]
                      = [cells[i] EXCEPT !.net = cells[i].original_net]
        /\ \E p \in PointsIn, r \in ClearanceIn :
               /\ i \in ViaFootprint(p[1], p[2], r)
               /\ UnmarkVia(Cur, 0, p[1], p[2], cells[i].net, r).cells[i]
                      = [cells[i] EXCEPT !.net = cells[i].original_net]

-----------------------------------------------------------------------------
(* C5 *)

\* C5: from a fresh grid, after any sequence of mark_blocked, mark_rect_blocked,
\* mark_segment, mark_via, unmark_segment and unmark_via calls, every cell has
\* is_obstacle => blocked and pad_blocked => blocked.
C5_CellInvariant ==
    \A i \in DOMAIN cells :
        /\ cells[i].is_obstacle => cells[i].blocked
        /\ cells[i].pad_blocked => cells[i].blocked

-----------------------------------------------------------------------------
(* C9 *)

\* the calls whose x, y or layer lies outside the grid
InvalidCalls ==
    {c \in (PointsIn \cup {<<-CongestionSize, 0>>}) \X CounterLayersIn :
        ~IsValid(c[1][1], c[1][2], c[2])}

\* C9: a mutation call whose x, y or layer lies outside the grid changes no cell
\* and no congestion counter outside the valid part of its footprint, and
\* accesses no storage outside the cell buffer and the congestion buffer.
C9_InvalidCoordinatesIgnored ==
    /\ ~oob
    /\ \A c \in InvalidCalls :
           /\ \A d \in {-1, 1} :
                  UpdateCongestion(Cur, c[1][1], c[1][2], c[2], d) = Cur
           /\ IncrementUsage(Cur, c[1][1], c[1][2], c[2]) = Cur
           /\ \A n \in Nets, o \in BOOLEAN :
                  MarkBlocked(Cur, c[1][1], c[1][2], c[2], n, o) = Cur
    /\ \A s \in SegmentsIn, l \in LayersIn, n \in Nets, k \in ClearanceIn :
           LET fp == IF l < layers
                     THEN SegmentFootprint(s[1][1], s[1][2], s[2][1], s[2][2], l, k)
                     ELSE {}
               g1 == MarkSegment(Cur, s[1][1], s[1][2], s[2][1], s[2][2], l, n, k)
               g2 == UnmarkSegment(Cur, s[1][1], s[1][2], s[2][1], s[2][2], l, n, k)
           IN  /\ ~g1.oob /\ ~g2.oob
               /\ DOMAIN g1.cells = DOMAIN cells /\ DOMAIN g2.cells = DOMAIN cells
               /\ \A i \in DOMAIN cells \ fp :
                      g1.cells[i] = cells[i] /\ g2.cells[i] = cells[i]
               /\ l >= layers => g1 = Cur /\ g2 = Cur
    /\ \A p \in PointsIn, n \in Nets, r \in ClearanceIn :
           LET fp == ViaFootprint(p[1], p[2], r)
               g1 == MarkVia(Cur, 0, p[1], p[2], n, r)
               g2 == UnmarkVia(Cur, 0, p[1], p[2], n, r)
           IN  /\ ~g1.oob /\ ~g2.oob
               /\ DOMAIN g1.cells = DOMAIN cells /\ DOMAIN g2.cells = DOMAIN cells
               /\ \A i \in DOMAIN cells \ fp :
                      g1.cells[i] = cells[i] /\ g2.cells[i] = cells[i]
    /\ \A s \in RectsIn, l \in LayersIn, n \in Nets, o \in BOOLEAN :
           LET g1 == MarkRectBlocked(Cur, s[1][1], s[1][2], s[2][1], s[2][2], l, n, o)
           IN  /\ ~g1.oob
               /\ DOMAIN g1.cells = DOMAIN cells
               /\ l >= layers => g1 = Cur

-----------------------------------------------------------------------------
(* C11 *)

\* C11: no step of a route() call, from its entry to its return, successful or
\* not, in standard or negotiated mode, changes a field of a cell or a
\* congestion counter.
C11_RouteLeavesGrid ==
    [][pc' \in {"search", "done"} => (cells' = cells /\ congestion' = congestion)]_vars

\* a negotiated route() returned a path over a grid that holds a blocked, used
\* cell, and the cells and counters are those the host had set up
C11_Witness ==
    /\ Succeeded /\ args.negotiated_mode
    /\ result.segments # << >>
    /\ nops = MaxOps
    /\ \E i \in DOMAIN cells : cells[i].blocked /\ cells[i].usage_count > 0

-----------------------------------------------------------------------------
(* C12 *)

\* C12: get_total_overflow does not decrease across any increment_usage call
\* (valid or invalid coordinates), is unchanged across update_history_costs,
\* and every usage_count is >= 0.
C12_OverflowMonotone ==
    /\ \A p \in PointsIn, l \in CounterLayersIn :
           GetTotalOverflow(IncrementUsage(Cur, p[1], p[2], l)) >= GetTotalOverflow(Cur)
    /\ \A inc \in HistoryIncrementIn :
           GetTotalOverflow(UpdateHistoryCosts(Cur, inc)) = GetTotalOverflow(Cur)
    /\ \A i \in DOMAIN cells : cells[i].usage_count >= 0

-----------------------------------------------------------------------------
(* C13 *)

EmptyGrid == \A i \in DOMAIN cells : cells[i] = GridCell

\* C13: routing between two different cells of one row of an empty
\* single-layer grid succeeds with no via and exactly one segment, from the
\* start point to the end point on layer 0, with the rule's trace width and the
\* routed net.
C13_StraightTrace ==
    (/\ pc = "done" /\ EmptyGrid /\ layers = 1
     /\ StartG(args)[2] = EndG(args)[2] /\ StartG(args) # EndG(args)) =>
        /\ result.success
        /\ result.vias = << >>
        /\ result.segments =
               << Segment(args.start_x, args.start_y, args.end_x, args.end_y, 0, args.net) >>

-----------------------------------------------------------------------------
(* C14 *)

\* the positions of the vias in what reconstruct_path emitted
ViaPositions(out) == {i \in 1..Len(out) : IsVia(out[i])}

\* C14: on a two-layer board whose layer 0 is a static obstacle outside a small
\* pad at each endpoint, route() from pad to pad on layer 0 succeeds with
\* exactly two vias, the first from layer 0 to 1 and the second from 1 to 0,
\* and every segment emitted between them lies on layer 1.
C14_ViaRequired ==
    pc = "done" =>
        /\ result.success
        /\ Len(result.vias) = 2
        /\ result.vias[1].layer_from = 0 /\ result.vias[1].layer_to = 1
        /\ result.vias[2].layer_from = 1 /\ result.vias[2].layer_to = 0
        /\ LET out == RoutedOutput
               first == SetMin(ViaPositions(out))
               last == SetMax(ViaPositions(out))
           IN  \A i \in (first + 1)..(last - 1) : IsSegment(out[i]) /\ out[i].layer = 1

-----------------------------------------------------------------------------
(* C15 *)

\* C15: during and after every route() call the open set was popped at most
\* cols * rows * 4 times, the closed list holds no (x, y, layer) position
\* twice, and nodes_explored counts the closed list and is at most iterations.
C15_BoundedTermination ==
    pc \in {"search", "done"} =>
        /\ last_iterations <= cols * rows * 4
        /\ \A i, j \in 1..Len(closed_list) :
               Key(closed_list[i]) = Key(closed_list[j]) => i = j
        /\ last_nodes_explored = Len(closed_list)
        /\ last_nodes_explored <= last_iterations

\* a route() that returned after popping a position that was already closed
C15_Witness ==
    /\ pc = "done"
    /\ last_nodes_explored < last_iterations
    /\ Len(closed_list) > 1

-----------------------------------------------------------------------------
(* C16 *)

\* the congestion block that covers the cell stored at index i
BlockOf(i) ==
    CongestionIndex(i % cols, (i \div cols) % rows, i \div (cols * rows))

\* C16: across every mark_segment, mark_via, unmark_segment and unmark_via
\* call, the counter of each congestion block grows by exactly the number of
\* cells of that block that the call turned from unblocked to blocked: a mark
\* adds nothing for cells that were blocked already, and an unmark, which
\* blocks no cell, changes no counter.
C16_CongestionAccounting ==
    [][/\ DOMAIN congestion' = DOMAIN congestion
       /\ \A b \in DOMAIN congestion :
              congestion'[b] = congestion[b] + Cardinality(
                  {i \in DOMAIN cells :
                      BlockOf(i) = b /\ ~cells[i].blocked /\ cells'[i].blocked})]_vars

\* a trace across the block boundary of layer 0 was marked and ripped up: both
\* blocks keep their counts and no cell is blocked
C16_Witness ==
    /\ nops = MaxOps
    /\ congestion[0] > 0 /\ congestion[1] > 0
    /\ \A i \in DOMAIN cells : ~cells[i].blocked

-----------------------------------------------------------------------------
(* C17 *)

\* the square trace footprint of (x, y): offsets up to trace_half_width_cells_
TraceFootprint(x, y) ==
    ((x - TraceHalfWidthCells)..(x + TraceHalfWidthCells))
        \X ((y - TraceHalfWidthCells)..(y + TraceHalfWidthCells))

\* C17: with allow_sharing = true, is_trace_blocked(x, y, layer, net) is true
\* exactly when some cell of the footprint is out of bounds, or blocked and a
\* static obstacle, or blocked with usage_count = 0 and a net that is 0 or not
\* the routed net; so a blocked cell that is no obstacle and has usage_count > 0
\* never blocks.
C17_NegotiatedPolicy ==
    \A p \in ValidPoints, layer \in LayersIn, net \in Nets :
        IsTraceBlocked(Cur, p[1], p[2], layer, net, TRUE)
            <=> \E c \in TraceFootprint(p[1], p[2]) :
                   \/ ~IsValid(c[1], c[2], layer)
                   \/ /\ At(Cur, c[1], c[2], layer).blocked
                      /\ At(Cur, c[1], c[2], layer).is_obstacle
                   \/ /\ At(Cur, c[1], c[2], layer).blocked
                      /\ At(Cur, c[1], c[2], layer).usage_count = 0
                      /\ \/ At(Cur, c[1], c[2], layer).net = 0
                         \/ At(Cur, c[1], c[2], layer).net # net

\* a footprint inside the board holds a blocked, used cell of another net that
\* is no obstacle: the trace is blocked in standard mode and not when sharing
C17_Witness ==
    \E p \in ValidPoints, net \in PadNets :
        /\ \A c \in TraceFootprint(p[1], p[2]) : IsValid(c[1], c[2], 0)
        /\ \E c \in TraceFootprint(p[1], p[2]) :
               /\ At(Cur, c[1], c[2], 0).blocked /\ ~At(Cur, c[1], c[2], 0).is_obstacle
               /\ At(Cur, c[1], c[2], 0).net # net /\ At(Cur, c[1], c[2], 0).usage_count > 0
        /\ ~IsTraceBlocked(Cur, p[1], p[2], 0, net, TRUE)
        /\ IsTraceBlocked(Cur, p[1], p[2], 0, net, FALSE)

-----------------------------------------------------------------------------
(* C18 *)

\* C18: for every routable-layer list and every start and end layer, route()
\* reads no cell and no congestion counter outside the buffers, is not killed,
\* and every node it pushes onto the open set has a layer of the grid.
C18_SearchMemorySafe ==
    /\ ~oob
    /\ pc # "killed"
    /\ \A n \in open_set : n.layer \in 0..(layers - 1)
    /\ \A i \in 1..Len(closed_list) : closed_list[i].layer \in 0..(layers - 1)

-----------------------------------------------------------------------------
(* C19 *)

\* C19: on a grid whose cells are all free, mark_segment(A -> B, L, N, k)
\* followed by unmark_segment(B -> A, L, N, k) leaves every cell unblocked
\* with net 0, for all endpoints A and B, layers, nets and clearances.
C19_RipUpEitherDirection ==
    EmptyGrid =>
        \A s \in SegmentsIn, l \in LayersIn, n \in Nets, k \in ClearanceIn :
            LET g1 == MarkSegment(Cur, s[1][1], s[1][2], s[2][1], s[2][2], l, n, k)
                g2 == UnmarkSegment(g1, s[2][1], s[2][2], s[1][1], s[1][2], l, n, k)
            IN  \A i \in DOMAIN cells : ~g2.cells[i].blocked /\ g2.cells[i].net = 0

-----------------------------------------------------------------------------
(* C20 *)

\* C20: on a free grid, after mark_segment(S1, L, N, k) and
\* mark_segment(S2, L, N, k), or mark_via of net N, unmark_segment(S1, L, N, k)
\* leaves every cell of the footprint of S2, and of the via, blocked with
\* net N.
C20_RipUpSparesSameNet ==
    EmptyGrid =>
        \A s1 \in SegmentsIn, l \in 0..(layers - 1), n \in PadNets, k \in ClearanceIn :
            /\ \A s2 \in SegmentsIn :
                   LET g1 == MarkSegment(Cur, s1[1][1], s1[1][2], s1[2][1], s1[2][2], l, n, k)
                       g2 == MarkSegment(g1, s2[1][1], s2[1][2], s2[2][1], s2[2][2], l, n, k)
                       g3 == UnmarkSegment(g2, s1[1][1], s1[1][2], s1[2][1], s1[2][2], l, n, k)
                   IN  \A i \in SegmentFootprint(s2[1][1], s2[1][2], s2[2][1], s2[2][2], l, k) :
                           g3.cells[i].blocked /\ g3.cells[i].net = n
            /\ \A p \in PointsIn, r \in ClearanceIn :
                   LET g1 == MarkSegment(Cur, s1[1][1], s1[1][2], s1[2][1], s1[2][2], l, n, k)
                       g2 == MarkVia(g1, 0, p[1], p[2], n, r)
                       g3 == UnmarkSegment(g2, s1[1][1], s1[1][2], s1[2][1], s1[2][2], l, n, k)
                   IN  \A i \in ViaFootprint(p[1], p[2], r) :
                           g3.cells[i].blocked /\ g3.cells[i].net = n

====
